---- MODULE Spec2Model ----
(***************************************************************************)
(* A model of orbitize's samplers (orbitize/sampler.py): the OFTI          *)
(* rejection sampler (prepare_samples / reject / run_sampler), the MCMC    *)
(* sampler (__init__, _fill_in_fixed_params, run_sampler, chop_chains) and *)
(* Sampler._logl; and of the Kepler-equation solver (orbitize/kepler.py:   *)
(* _calc_ecc_anom, _newton_solver, _mikkola_solver_wrapper).               *)
(*                                                                         *)
(* Arrays are sequences (1-based here, 0-based in the source; every index  *)
(* taken from the source is shifted where it is used).  Random draws are   *)
(* inputs chosen with \E.  A drawn parameter value is an integer token     *)
(* that encodes where it was drawn, so that two different samples never    *)
(* carry the same numbers and every reordering is visible.                 *)
(***************************************************************************)
EXTENDS Integers, Sequences, FiniteSets, TLC

VARIABLES
    \* ---- OFTI.run_sampler (sampler.py 233-274)
    o_pc,            \* "idle", "loop", "returned", "raised"
    total_orbits,    \* argument total_orbits
    num_samples,     \* argument num_samples
    n_orbits_saved,  \* local n_orbits_saved
    output_orbits,   \* local output_orbits: total_orbits rows
    output_lnlikes,  \* local output_lnlikes: total_orbits entries
    n_batches,       \* number of loop iterations executed so far
    samples,         \* last result of prepare_samples: samples[p][i]
    lnp,             \* reject: lnp
    random_samples,  \* reject: random_samples = log(uniform draws)
    accepted_orbits, \* last first result of reject
    acc_lnlikes,     \* last second result of reject
    ever_accepted,   \* history: every orbit reject() has returned in this call
    o_results,       \* arguments of results.add_samples: <<>> or <<post, lnlike>>
    o_returned       \* value returned by run_sampler

VARIABLES
    \* ---- MCMC._fill_in_fixed_params exercised alone (sampler.py 358-382)
    f_pc,            \* "idle" (not exercised), "start", "drawn", "filled"
    f_priors,        \* system.sys_priors of the sampler under test
    f_twodim,        \* np.ndim(sampled_params) == 2
    f_input,         \* sampled_params
    f_output         \* [ok, val]: the returned array, or ok = FALSE on IndexError

VARIABLES
    \* ---- MCMC (sampler.py 300-607)
    m_pc,            \* "off" (no sampler), "idle" (constructed), "burned", "checked",
                     \* "done" (run_sampler returned), "failed" (it raised),
                     \* "chopfail" (chop_chains raised)
    py3,             \* the interpreter is Python 3 (true division), else Python 2
    sys_priors,      \* system.sys_priors
    num_temps,       \* self.num_temps
    num_walkers,     \* self.num_walkers
    curr_pos,        \* self.curr_pos
    mc_total_orbits, \* run_sampler argument total_orbits
    burn_steps,      \* run_sampler argument burn_steps
    nsteps,          \* run_sampler local nsteps
    chain,           \* self.chain
    lnlikes,         \* self.lnlikes
    lnlikes_alltemps,\* self.lnlikes_alltemps
    post,            \* self.post
    m_results,       \* arguments of the last results.add_samples call
    n_calls,         \* history: run_sampler calls started
    entry_pos,       \* history: self.curr_pos when the current call was entered
    entry_iters,     \* history: sampler iterations executed before the current call
    iters,           \* history: sampler iterations executed so far
    first_p0,        \* history: p0 of the first sampler iteration of the current call
    steps_total,     \* history: production steps per walker of all completed calls
    chop_args,       \* history: <<burn, trim, n_steps>> of a chop_chains call that
                     \* was the last operation, else <<>>
    chop_err         \* the exception that call raised, else ""

VARIABLES
    \* ---- Sampler._logl exercised alone (sampler.py 48-83)
    l_pc,            \* "idle" (not exercised), "start", "done"
    l_lnlikes,       \* local lnlikes: l_lnlikes[obs][quantity][orbit]
    l_custom,        \* self.custom_lnlike(params), or <<>> when custom_lnlike is None
    l_sum            \* the returned lnlikes_sum: one entry per orbit

VARIABLES
    \* ---- OFTI.prepare_samples exercised alone (sampler.py 134-201)
    p_pc,            \* "idle" (not exercised), "start", "done"
    p_priors,        \* self.priors: one entry per orbital element
    p_num,           \* argument num_samples
    p_drawn,         \* history: samples as filled by the loop of lines 151-156
    p_calc,          \* history: what each parameter of calc_orbit was bound to
    p_corr,          \* <<sma_corr, lan_corr>> of every candidate
    p_samples        \* the returned samples

VARIABLES
    \* ---- kepler._calc_ecc_anom (kepler.py 108-195)
    k_pc,            \* "idle" (not exercised), "start", "newton", "high", "done",
                     \* "raised"
    k_manom,         \* the caller's manom array
    k_ecc,           \* the caller's ecc array
    k_max_iter,      \* argument max_iter
    k_need,          \* the arithmetic: corrections after which abs_diff <= tolerance
    k_eanom,         \* _calc_ecc_anom local eanom (returned at "done")
    nw_manom,        \* _newton_solver argument manom
    nw_ecc,          \* _newton_solver argument ecc
    nw_eanom,        \* _newton_solver local eanom
    nw_ind,          \* _newton_solver local ind[0]
    niter,           \* _newton_solver local niter
    k_uncond,        \* history: opening Newton steps applied to each element
    k_cond,          \* history: loop corrections applied to each element
    k_calls,         \* history: calls made with the caller's arrays
    k_first_eanom,   \* history: what the first of two calls returned
    k_in_manom,      \* history: the caller's manom when the call was entered
    k_in_ecc         \* history: the caller's ecc when the call was entered

ofti_vars == <<o_pc, total_orbits, num_samples, n_orbits_saved, output_orbits,
               output_lnlikes, n_batches, samples, lnp, random_samples,
               accepted_orbits, acc_lnlikes, ever_accepted, o_results, o_returned>>

fill_vars == <<f_pc, f_priors, f_twodim, f_input, f_output>>

mcmc_vars == <<m_pc, py3, sys_priors, num_temps, num_walkers, curr_pos,
               mc_total_orbits, burn_steps, nsteps, chain, lnlikes,
               lnlikes_alltemps, post, m_results, n_calls, entry_pos,
               entry_iters, iters, first_p0, steps_total, chop_args, chop_err>>

logl_vars == <<l_pc, l_lnlikes, l_custom, l_sum>>

prep_vars == <<p_pc, p_priors, p_num, p_drawn, p_calc, p_corr, p_samples>>

kep_vars == <<k_pc, k_manom, k_ecc, k_max_iter, k_need, k_eanom, nw_manom,
              nw_ecc, nw_eanom, nw_ind, niter, k_uncond, k_cond, k_calls,
              k_first_eanom, k_in_manom, k_in_ecc>>

vars == <<ofti_vars, fill_vars, mcmc_vars, logl_vars, prep_vars, kep_vars>>

\* ------------------------------------------------------------------ bounds
MaxOrbits  == 2      \* largest total_orbits tried
MaxSamples == 2      \* largest num_samples (batch size) tried
MaxBatches == 2      \* loop iterations explored per call
MaxParams  == 3      \* longest system.sys_priors tried
MaxModels  == 2      \* most rows of a 2-D sampled_params tried
MaxTotal   == 3      \* largest total_orbits given to MCMC.run_sampler
MaxBurn    == 1      \* largest burn_steps
MaxCalls   == 2      \* MCMC.run_sampler calls per run
MaxChop    == 1      \* largest burn and trim given to chop_chains
MaxObs     == 2      \* most observations (rows of the data table) tried
MaxLen     == 2      \* longest manom / ecc arrays given to _calc_ecc_anom
MaxIter    == 1      \* largest max_iter given to _calc_ecc_anom

LnVals        == {0, -1}     \* summed log-likelihoods a candidate can have
WalkerChoices == {1, 2}      \* num_walkers
TempChoices   == {1, 2}      \* num_temps
FixedVals     == {-1, -2}    \* values of fixed parameters

\* ------------------------------------------------------- program constants
NumParams == 8       \* sma, ecc, inc, argp, lan, tau, plx, mtot
NegInf    == -100    \* np.log(0.0): np.random.random() draws from [0, 1)

LogUVals  == {NegInf, -1}    \* logs of the uniform draws tried

Min(a, b) == IF a < b THEN a ELSE b
Max(a, b) == IF a > b THEN a ELSE b

\* --------------------------------------------------------------- numpy
\* np.empty leaves its cells unwritten: an unwritten row and an unwritten
\* scalar are kept apart from every written value.
UnfilledRow == <<>>
UnfilledVal == 1

\* a[start:stop] = vals on a 1-D or 2-D array a (first axis), 0-based bounds:
\* the slice is clipped to the array, and vals must have the slice's length
\* or length 1 (broadcast); anything else raises ValueError.
SliceAssign(a, start, stop, vals) ==
    LET lo == Min(start, Len(a))
        hi == Max(lo, Min(stop, Len(a)))
        n  == hi - lo
    IN  IF Len(vals) = n
        THEN [ok |-> TRUE,
              arr |-> [k \in 1..Len(a) |->
                         IF k > lo /\ k <= hi THEN vals[k - lo] ELSE a[k]]]
        ELSE IF Len(vals) = 1
        THEN [ok |-> TRUE,
              arr |-> [k \in 1..Len(a) |->
                         IF k > lo /\ k <= hi THEN vals[1] ELSE a[k]]]
        ELSE [ok |-> FALSE, arr |-> a]

\* a[0:stop] read: clipped to the array.
SliceTo(a, stop) == SubSeq(a, 1, Min(stop, Len(a)))

\* ---------------------------------------------------------------- OFTI
\* The value drawn for parameter p of candidate i of batch b; q is the
\* candidate's fit quality, which decides its log-likelihood.
Tok(b, i, q, p) == ((b * 10 + i) * 10 + q) * 10 + p

\* prepare_samples(num_samples): a NumParams x num_samples array, as it is
\* returned (how its rows are drawn, scaled and rotated is modelled under
\* OFTI.prepare_samples below).
prepare_samples(b, n, q) ==
    [p \in 1..NumParams |-> [i \in 1..n |-> Tok(b, i, q[i], p)]]

\* Column i of samples: samples[:, i].
Column(s, i) == [p \in 1..NumParams |-> s[p][i]]

\* The summed log-likelihood of one orbit (a full parameter vector).
LnOfOrbit(orbit) == 0 - ((orbit[1] \div 10) % 10)

\* _logl(samples): one summed log-likelihood per column.
logl(s) == [i \in 1..Len(s[1]) |-> LnOfOrbit(Column(s, i))]

\* The comparison with >= in place of >.
AcceptsGE(l, r) == l >= r
\* The test of reject() for one candidate: lnp > random_samples, line 226.
Accepts(l, r) == l > r

\* np.where(lnp > random_samples)[0]: the accepted indices, increasing.
RECURSIVE WhereUpTo(_, _, _)
WhereUpTo(l, r, n) ==
    IF n = 0 THEN <<>>
    ELSE IF Accepts(l[n], r[n]) THEN Append(WhereUpTo(l, r, n - 1), n)
    ELSE WhereUpTo(l, r, n - 1)

saved_orbit_idx(l, r) == WhereUpTo(l, r, Len(l))

\* reject(samples): <<saved_orbits, lnlikes>>.
reject(s, r) ==
    LET l   == logl(s)
        idx == saved_orbit_idx(l, r)
    IN  <<[k \in 1..Len(idx) |-> Column(s, idx[k])],
          [k \in 1..Len(idx) |-> l[idx[k]]]>>

\* The number still wanted, whatever the batch accepted.
maxindex2saveNoMin(n_accepted, total, saved) == total - saved
\* maxindex2save = np.min([n_accepted, total_orbits - n_orbits_saved]), line 260.
maxindex2save(n_accepted, total, saved) == Min(n_accepted, total - saved)

\* The other objects of the module, at rest.
OFTI_Idle ==
    /\ o_pc = "idle"
    /\ total_orbits = 0
    /\ num_samples = 0
    /\ n_orbits_saved = 0
    /\ output_orbits = <<>>
    /\ output_lnlikes = <<>>
    /\ n_batches = 0
    /\ samples = <<>>
    /\ lnp = <<>>
    /\ random_samples = <<>>
    /\ accepted_orbits = <<>>
    /\ acc_lnlikes = <<>>
    /\ ever_accepted = {}
    /\ o_results = <<>>
    /\ o_returned = <<>>

\* run_sampler(total_orbits, num_samples): lines 247-249.
OFTI_Call ==
    /\ o_pc = "idle"
    /\ \E N \in 0..MaxOrbits, B \in 1..MaxSamples :
         /\ total_orbits' = N
         /\ num_samples' = B
         /\ output_orbits' = [k \in 1..N |-> UnfilledRow]
         /\ output_lnlikes' = [k \in 1..N |-> UnfilledVal]
    /\ n_orbits_saved' = 0
    /\ o_pc' = "loop"
    /\ UNCHANGED <<n_batches, samples, lnp, random_samples, accepted_orbits,
                   acc_lnlikes, ever_accepted, o_results, o_returned>>
    /\ UNCHANGED <<fill_vars, mcmc_vars, logl_vars, prep_vars, kep_vars>>

\* One iteration of the while loop: lines 252-267.
OFTI_Batch ==
    /\ o_pc = "loop"
    /\ n_orbits_saved < total_orbits
    /\ n_batches < MaxBatches
    /\ \E q \in [1..num_samples -> {0 - l : l \in LnVals}],
          r \in [1..num_samples -> LogUVals] :
         LET s    == prepare_samples(n_batches + 1, num_samples, q)
             res  == reject(s, r)
             acc  == res[1]
             lls  == res[2]
             n_accepted == Len(acc)
             m    == maxindex2save(n_accepted, total_orbits, n_orbits_saved)
             wo   == SliceAssign(output_orbits, n_orbits_saved,
                                 n_orbits_saved + n_accepted, SliceTo(acc, m))
             wl   == SliceAssign(output_lnlikes, n_orbits_saved,
                                 n_orbits_saved + n_accepted, SliceTo(lls, m))
         IN  /\ samples' = s
             /\ lnp' = logl(s)
             /\ random_samples' = r
             /\ accepted_orbits' = acc
             /\ acc_lnlikes' = lls
             /\ ever_accepted' = ever_accepted \cup {acc[k] : k \in 1..Len(acc)}
             /\ IF n_accepted = 0
                THEN UNCHANGED <<output_orbits, output_lnlikes, n_orbits_saved, o_pc>>
                ELSE IF ~wo.ok
                THEN /\ o_pc' = "raised"
                     /\ UNCHANGED <<output_orbits, output_lnlikes, n_orbits_saved>>
                ELSE IF ~wl.ok
                THEN /\ o_pc' = "raised"
                     /\ output_orbits' = wo.arr
                     /\ UNCHANGED <<output_lnlikes, n_orbits_saved>>
                ELSE /\ output_orbits' = wo.arr
                     /\ output_lnlikes' = wl.arr
                     /\ n_orbits_saved' = n_orbits_saved + m
                     /\ o_pc' = "loop"
    /\ n_batches' = n_batches + 1
    /\ UNCHANGED <<total_orbits, num_samples, o_results, o_returned>>
    /\ UNCHANGED <<fill_vars, mcmc_vars, logl_vars, prep_vars, kep_vars>>

\* Loop exit: lines 269-274.
OFTI_Return ==
    /\ o_pc = "loop"
    /\ ~(n_orbits_saved < total_orbits)
    /\ o_results' = <<output_orbits, output_lnlikes>>
    /\ o_returned' = output_orbits
    /\ o_pc' = "returned"
    /\ UNCHANGED <<total_orbits, num_samples, n_orbits_saved, output_orbits,
                   output_lnlikes, n_batches, samples, lnp, random_samples,
                   accepted_orbits, acc_lnlikes, ever_accepted>>
    /\ UNCHANGED <<fill_vars, mcmc_vars, logl_vars, prep_vars, kep_vars>>

\* ------------------------------------------------- MCMC: fixed parameters
\* An entry of system.sys_priors: a prior object (it has draw_samples) or a
\* plain number, the value of a fixed parameter.
Prior == [has_draw |-> TRUE, value |-> 0]
Fixed(v) == [has_draw |-> FALSE, value |-> v]

\* Every sys_priors of length n.
PriorConfigs(n) == [1..n -> {Prior} \cup {Fixed(v) : v \in FixedVals}]

\* MCMC.__init__, lines 323-331: self.fixed_params, the (index, value) pairs
\* of the entries without draw_samples, in the order of sys_priors (0-based
\* index), and self.priors, the remaining entries.
RECURSIVE FixedUpTo(_, _)
FixedUpTo(priors, n) ==
    IF n = 0 THEN <<>>
    ELSE IF ~priors[n].has_draw
         THEN Append(FixedUpTo(priors, n - 1), <<n - 1, priors[n].value>>)
         ELSE FixedUpTo(priors, n - 1)

Reversed(s) == [k \in 1..Len(s) |-> s[Len(s) + 1 - k]]

\* The pairs in decreasing order of index.
fixed_params_reversed(priors) == Reversed(FixedUpTo(priors, Len(priors)))
\* self.fixed_params, lines 324-329.
fixed_params(priors) == FixedUpTo(priors, Len(priors))

\* self.num_params = len(self.priors), line 334.
num_params(priors) == Len(priors) - Len(fixed_params(priors))

\* np.insert(arr, index, value) on a 1-D array: IndexError when index is
\* beyond the end.
np_insert(arr, index, value) ==
    IF index > Len(arr) \/ index < 0
    THEN [ok |-> FALSE, val |-> arr]
    ELSE [ok |-> TRUE,
          val |-> SubSeq(arr, 1, index) \o <<value>> \o SubSeq(arr, index + 1, Len(arr))]

\* np.insert(arr, index, value, axis=1) on a 2-D array: the value becomes a
\* new column of every row.
np_insert_axis1(arr, index, value) ==
    IF \E m \in 1..Len(arr) : ~np_insert(arr[m], index, value).ok
    THEN [ok |-> FALSE, val |-> arr]
    ELSE [ok |-> TRUE,
          val |-> [m \in 1..Len(arr) |-> np_insert(arr[m], index, value).val]]

\* The loop of lines 376-380 from the k-th pair on.
RECURSIVE InsertFrom(_, _, _, _)
InsertFrom(fp, k, twodim, acc) ==
    IF ~acc.ok \/ k > Len(fp) THEN acc
    ELSE InsertFrom(fp, k + 1, twodim,
                    IF twodim THEN np_insert_axis1(acc.val, fp[k][1], fp[k][2])
                    ELSE np_insert(acc.val, fp[k][1], fp[k][2]))

\* _fill_in_fixed_params(sampled_params), lines 368-382.
fill_in_fixed_params(priors, twodim, sampled_params) ==
    IF Len(fixed_params(priors)) = 0
    THEN [ok |-> TRUE, val |-> sampled_params]
    ELSE InsertFrom(fixed_params(priors), 1, twodim,
                    [ok |-> TRUE, val |-> sampled_params])

\* The value of the k-th sampled parameter of model m.
SampTok(m, k) == 10 * m + k

Fill_Idle ==
    /\ f_pc = "idle"
    /\ f_priors = <<>>
    /\ f_twodim = FALSE
    /\ f_input = <<>>
    /\ f_output = [ok |-> TRUE, val |-> <<>>]

Fill_Start ==
    /\ f_pc = "start"
    /\ f_priors \in UNION {PriorConfigs(n) : n \in 1..MaxParams}
    /\ f_twodim = FALSE
    /\ f_input = <<>>
    /\ f_output = [ok |-> TRUE, val |-> <<>>]

\* A 1-D array of the sampled parameters, as emcee hands to _logl.
Fill_Draw1D ==
    /\ f_pc = "start"
    /\ f_twodim' = FALSE
    /\ f_input' = [k \in 1..num_params(f_priors) |-> SampTok(1, k)]
    /\ f_pc' = "drawn"
    /\ UNCHANGED <<f_priors, f_output>>
    /\ UNCHANGED <<ofti_vars, mcmc_vars, logl_vars, prep_vars, kep_vars>>

\* A 2-D array (num_models, num_params), as run_sampler's flatchain.
Fill_Draw2D ==
    /\ f_pc = "start"
    /\ f_twodim' = TRUE
    /\ \E M \in 1..MaxModels :
         f_input' = [m \in 1..M |->
                       [k \in 1..num_params(f_priors) |-> SampTok(m, k)]]
    /\ f_pc' = "drawn"
    /\ UNCHANGED <<f_priors, f_output>>
    /\ UNCHANGED <<ofti_vars, mcmc_vars, logl_vars, prep_vars, kep_vars>>

Fill_Apply ==
    /\ f_pc = "drawn"
    /\ f_output' = fill_in_fixed_params(f_priors, f_twodim, f_input)
    /\ f_pc' = "filled"
    /\ UNCHANGED <<f_priors, f_twodim, f_input>>
    /\ UNCHANGED <<ofti_vars, mcmc_vars, logl_vars, prep_vars, kep_vars>>

\* ------------------------------------------------------------------ MCMC
\* The value of free parameter p of walker w at temperature t after `age`
\* sampler iterations from the initial draw.
PosTok(age, t, w, p) == ((age * 10 + t) * 10 + w) * 10 + p

\* self.use_pt, lines 316-320.
use_pt == num_temps > 1

\* MCMC.__init__, lines 335-354: the initial walker positions, of shape
\* (ntemps, nwalkers, nparams) when tempered, else (nwalkers, nparams).
init_positions(priors, nt, nw) ==
    IF nt > 1
    THEN [t \in 1..nt |-> [w \in 1..nw |->
            [p \in 1..num_params(priors) |-> PosTok(0, t, w, p)]]]
    ELSE [w \in 1..nw |-> [p \in 1..num_params(priors) |-> PosTok(0, 1, w, p)]]

\* One iteration of the emcee / ptemcee sampler: every walker moves on.
StepVec(v) == [p \in DOMAIN v |-> v[p] + 1000]
StepWalkers(ws) == [w \in DOMAIN ws |-> StepVec(ws[w])]
Step(pos, pt) ==
    IF pt THEN [t \in DOMAIN pos |-> StepWalkers(pos[t])] ELSE StepWalkers(pos)

\* The position yielded by the k-th iteration of sampler.sample(p0, ...).
RECURSIVE sample(_, _, _)
sample(p0, pt, k) == IF k = 0 THEN p0 ELSE Step(sample(p0, pt, k - 1), pt)

\* sampler.chain after sample(p0, iterations=n) on a reset sampler:
\* (nwalkers, nsteps, nparams), with a leading temperature axis when tempered.
sampler_chain(p0, pt, n) ==
    IF pt
    THEN [t \in DOMAIN p0 |-> [w \in DOMAIN p0[t] |->
            [s \in 1..n |-> sample(p0, pt, s)[t][w]]]]
    ELSE [w \in DOMAIN p0 |-> [s \in 1..n |-> sample(p0, pt, s)[w]]]

\* The log-probability the sampler stores with a chain entry.
LnProbOf(vec) == 0 - (vec[1] \div 10)

\* sampler.lnprobability (emcee): (nwalkers, nsteps).
sampler_lnprobability(ch) ==
    [w \in DOMAIN ch |-> [s \in DOMAIN ch[w] |-> LnProbOf(ch[w][s])]]

\* sampler.logprobability (ptemcee): (ntemps, nwalkers, nsteps).
sampler_logprobability(ch) == [t \in DOMAIN ch |-> sampler_lnprobability(ch[t])]

\* The first two axes of an array merged, in C order or in Fortran order.
FlattenColMajor(a) ==
    [k \in 1..(Len(a) * Len(a[1])) |->
        a[((k - 1) % Len(a)) + 1][((k - 1) \div Len(a)) + 1]]
Flatten(a) ==
    [k \in 1..(Len(a) * Len(a[1])) |->
        a[((k - 1) \div Len(a[1])) + 1][((k - 1) % Len(a[1])) + 1]]

\* sampler.flatchain: (nwalkers*nsteps, nparams), with a leading temperature
\* axis when tempered.
sampler_flatchain(ch, pt) ==
    IF pt THEN [t \in DOMAIN ch |-> Flatten(ch[t])] ELSE Flatten(ch)

\* nsteps = int(np.ceil(total_orbits / self.num_walkers)), line 458: `/` is
\* true division under Python 3 and floor division of ints under Python 2.
nsteps_of(total, nw, p3) ==
    IF p3 THEN (total + nw - 1) \div nw ELSE total \div nw

\* The p0 handed to the burn-in run (line 448) and to the production run
\* (line 463).
\* A burn-in that starts over from the positions drawn in __init__.
burn_p0_restart == init_positions(sys_priors, num_temps, num_walkers)
burn_p0 == curr_pos
production_p0 == curr_pos

\* chain.shape[-2]
ChainSteps(ch, pt) == IF pt THEN Len(ch[1][1]) ELSE Len(ch[1])

\* An array of the same layout as ch holding the steps of old, then of ch.
stored_chain_appended(old, ch, pt) ==
    IF old = <<>> THEN ch
    ELSE IF pt
    THEN [t \in DOMAIN ch |-> [w \in DOMAIN ch[t] |-> old[t][w] \o ch[t][w]]]
    ELSE [w \in DOMAIN ch |-> old[w] \o ch[w]]
\* self.chain = sampler.chain, line 473.
stored_chain(old, ch, pt) == ch

MCMC_Idle ==
    /\ m_pc = "off"
    /\ py3 = TRUE
    /\ sys_priors = <<>>
    /\ num_temps = 1
    /\ num_walkers = 1
    /\ curr_pos = <<>>
    /\ mc_total_orbits = 0
    /\ burn_steps = 0
    /\ nsteps = 0
    /\ chain = <<>>
    /\ lnlikes = <<>>
    /\ lnlikes_alltemps = <<>>
    /\ post = <<>>
    /\ m_results = <<>>
    /\ n_calls = 0
    /\ entry_pos = <<>>
    /\ entry_iters = 0
    /\ iters = 0
    /\ first_p0 = <<>>
    /\ steps_total = 0
    /\ chop_args = <<>>
    /\ chop_err = ""

\* The sys_priors given to MCMC: at least one parameter is sampled.
MCMCPriors ==
    {<<Prior, Prior>>,
     <<Fixed(-1), Prior, Prior>>,
     <<Prior, Fixed(-1), Prior, Fixed(-2)>>}

\* After MCMC.__init__, lines 300-354.
MCMC_Start ==
    /\ m_pc = "idle"
    /\ py3 \in BOOLEAN
    /\ sys_priors \in MCMCPriors
    /\ num_temps \in TempChoices
    /\ num_walkers \in WalkerChoices
    /\ curr_pos = init_positions(sys_priors, num_temps, num_walkers)
    /\ mc_total_orbits = 0
    /\ burn_steps = 0
    /\ nsteps = 0
    /\ chain = <<>>
    /\ lnlikes = <<>>
    /\ lnlikes_alltemps = <<>>
    /\ post = <<>>
    /\ m_results = <<>>
    /\ n_calls = 0
    /\ entry_pos = <<>>
    /\ entry_iters = 0
    /\ iters = 0
    /\ first_p0 = <<>>
    /\ steps_total = 0
    /\ chop_args = <<>>
    /\ chop_err = ""

\* run_sampler(total_orbits, burn_steps), lines 437-456: the sampler is
\* built, the burn-in run is made and the sampler is reset.
MCMC_Burn ==
    /\ m_pc \in {"idle", "done", "failed", "chopfail"}
    /\ n_calls < MaxCalls
    /\ \E total \in 0..MaxTotal, burn \in 0..MaxBurn :
         /\ mc_total_orbits' = total
         /\ burn_steps' = burn
         /\ first_p0' = IF burn > 0 THEN burn_p0 ELSE <<>>
         /\ curr_pos' = IF burn > 0 THEN sample(burn_p0, use_pt, burn) ELSE curr_pos
         /\ iters' = iters + burn
    /\ entry_pos' = curr_pos
    /\ entry_iters' = iters
    /\ n_calls' = n_calls + 1
    /\ m_pc' = "burned"
    /\ chop_args' = <<>>
    /\ chop_err' = ""
    /\ UNCHANGED <<py3, sys_priors, num_temps, num_walkers, nsteps, chain, lnlikes,
                   lnlikes_alltemps, post, m_results, steps_total>>
    /\ UNCHANGED <<ofti_vars, fill_vars, logl_vars, prep_vars, kep_vars>>

\* Lines 458-460: nsteps and its assertion.
MCMC_Assert ==
    /\ m_pc = "burned"
    /\ nsteps' = nsteps_of(mc_total_orbits, num_walkers, py3)
    /\ m_pc' = IF nsteps' > 0 THEN "checked" ELSE "failed"
    /\ UNCHANGED <<py3, sys_priors, num_temps, num_walkers, curr_pos,
                   mc_total_orbits, burn_steps, chain, lnlikes, lnlikes_alltemps,
                   post, m_results, n_calls, entry_pos, entry_iters, iters,
                   first_p0, steps_total, chop_args, chop_err>>
    /\ UNCHANGED <<ofti_vars, fill_vars, logl_vars, prep_vars, kep_vars>>

\* Lines 462-490: the production run and the bookkeeping after it.
MCMC_Production ==
    /\ m_pc = "checked"
    /\ LET p0   == production_p0
           ch   == sampler_chain(p0, use_pt, nsteps)
           flat == sampler_flatchain(ch, use_pt)
           filled == fill_in_fixed_params(sys_priors, TRUE,
                                          IF use_pt THEN flat[1] ELSE flat)
           lnl  == IF use_pt THEN Flatten(sampler_logprobability(ch)[1])
                   ELSE sampler_lnprobability(ch)
       IN  /\ first_p0' = IF first_p0 = <<>> THEN p0 ELSE first_p0
           /\ curr_pos' = sample(p0, use_pt, nsteps)
           /\ chain' = stored_chain(chain, ch, use_pt)
           /\ lnlikes' = lnl
           /\ lnlikes_alltemps' =
                IF use_pt THEN sampler_logprobability(ch) ELSE lnlikes_alltemps
           /\ IF filled.ok
              THEN /\ post' = filled.val
                   /\ m_results' = <<filled.val, lnl>>
                   /\ m_pc' = "done"
                   /\ steps_total' = steps_total + nsteps
              ELSE /\ post' = IF use_pt THEN flat[1] ELSE flat
                   /\ m_pc' = "failed"
                   /\ UNCHANGED <<m_results, steps_total>>
    /\ iters' = iters + nsteps
    /\ UNCHANGED <<py3, sys_priors, num_temps, num_walkers, mc_total_orbits,
                   burn_steps, nsteps, n_calls, entry_pos, entry_iters,
                   chop_args, chop_err>>
    /\ UNCHANGED <<ofti_vars, fill_vars, logl_vars, prep_vars, kep_vars>>

\* ------------------------------------------------------------ chop_chains
\* a.reshape(shape) needs a.size to be the product of shape.
ReshapeOK(size, product) == size = product

\* self.post is a flatchain with the fixed columns inserted: 2-D.
post_ndim == 2

\* The sizes of self.lnlikes, self.lnlikes_alltemps and self.post.
LnlikesSize == IF use_pt THEN Len(lnlikes) ELSE Len(lnlikes) * Len(lnlikes[1])
AllTempsSize == Len(lnlikes_alltemps) * Len(lnlikes_alltemps[1])
                  * Len(lnlikes_alltemps[1][1])
PostSize == Len(post) * Len(post[1])

\* chop_chains(burn, trim), lines 576-607, up to the first statement that
\* raises.  Line 600 is read with its parentheses balanced.  Line 604 reads
\* `nsteps`, a name the function never binds (it binds n_steps).
chop_chains_raises(burn, trim) ==
    LET n_steps == ChainSteps(chain, use_pt)
    IN  IF ~ReshapeOK(LnlikesSize, num_walkers * n_steps)
        THEN "ValueError at line 588"
        ELSE IF use_pt /\ ~ReshapeOK(AllTempsSize, num_temps * num_walkers * n_steps)
        THEN "ValueError at line 590"
        ELSE IF ~ReshapeOK(PostSize, num_walkers * n_steps * num_params(sys_priors))
        THEN "ValueError at line 591"
        ELSE IF post_ndim < 3
        THEN "IndexError at line 600"
        ELSE "NameError at line 604"

\* Every statement that assigns to self (lines 603-607) comes after the one
\* that raises: the sampler's arrays are left as they were.
MCMC_ChopChains ==
    /\ m_pc \in {"done", "failed", "chopfail"}
    /\ chain # <<>>
    /\ \E burn \in 0..MaxChop, trim \in 0..MaxChop :
         /\ chop_args' = <<burn, trim, ChainSteps(chain, use_pt)>>
         /\ chop_err' = chop_chains_raises(burn, trim)
    /\ m_pc' = "chopfail"
    /\ UNCHANGED <<py3, sys_priors, num_temps, num_walkers, curr_pos,
                   mc_total_orbits, burn_steps, nsteps, chain, lnlikes,
                   lnlikes_alltemps, post, m_results, n_calls, entry_pos,
                   entry_iters, iters, first_p0, steps_total>>
    /\ UNCHANGED <<ofti_vars, fill_vars, logl_vars, prep_vars, kep_vars>>

\* ------------------------------------------------------------ Sampler._logl
\* np.nan: a float that is no number.  Every log-likelihood term tried
\* here is <= 0, so the value standing for NaN is none of them.
NaN == 1

\* Float addition: NaN plus anything is NaN.
Plus(a, b) == IF a = NaN \/ b = NaN THEN NaN ELSE a + b

\* The term self.lnlike gives for quantity q of observation o when it is a
\* number: a different power of two for every (o, q), so that a sum tells
\* which terms went into it.
TermVal(o, q) == 0 - 2 ^ (2 * (o - 1) + (q - 1))

\* The terms of orbit n along axes (0, 1), in C order.
TermsOf(arr, n) ==
    [k \in 1..(2 * Len(arr)) |-> arr[(k + 1) \div 2][((k + 1) % 2) + 1][n]]

RECURSIVE AddUpTo(_, _)
AddUpTo(seq, k) == IF k = 0 THEN 0 ELSE Plus(AddUpTo(seq, k - 1), seq[k])

\* np.sum(lnlikes, axis=(0,1)): the plain sum, which a NaN term turns to NaN.
np_sum(arr) ==
    [n \in 1..Len(arr[1][1]) |-> AddUpTo(TermsOf(arr, n), 2 * Len(arr))]

\* np.nansum(lnlikes, axis=(0,1)), line 78: NaN terms count as zero.
np_nansum(arr) ==
    [n \in 1..Len(arr[1][1]) |->
        LET t == TermsOf(arr, n)
        IN  AddUpTo([k \in 1..Len(t) |-> IF t[k] = NaN THEN 0 ELSE t[k]],
                    Len(t))]

\* _logl(params): lines 78-83, from the lnlikes of line 75.
Sampler_logl(arr, custom) ==
    LET lnlikes_sum == np_nansum(arr)
    IN  IF custom # <<>>
        THEN [n \in 1..Len(lnlikes_sum) |-> Plus(lnlikes_sum[n], custom[n])]
        ELSE lnlikes_sum

\* The numbers of orbits (M) tried, and the values a custom term can have.
OrbitChoices == {1, 2}
CustomVals   == {0, -100}

\* The lnlikes arrays self.lnlike can give for nobs observations and M
\* orbits: every term is a number or NaN.
LnlikesArrays(nobs, M) ==
    { [o \in 1..nobs |-> [q \in 1..2 |-> [n \in 1..M |->
          IF isnan[o][q][n] THEN NaN ELSE TermVal(o, q)]]] :
      isnan \in [1..nobs -> [1..2 -> [1..M -> BOOLEAN]]] }

Logl_Idle ==
    /\ l_pc = "idle"
    /\ l_lnlikes = <<>>
    /\ l_custom = <<>>
    /\ l_sum = <<>>

\* A sampler with its data and one params array, after line 75.
Logl_Start ==
    /\ l_pc = "start"
    /\ \E nobs \in 1..MaxObs, M \in OrbitChoices :
         /\ l_lnlikes \in LnlikesArrays(nobs, M)
         /\ l_custom \in {<<>>} \cup [1..M -> CustomVals]
    /\ l_sum = <<>>

\* _logl(params): lines 78-83.
Logl_Call ==
    /\ l_pc = "start"
    /\ l_sum' = Sampler_logl(l_lnlikes, l_custom)
    /\ l_pc' = "done"
    /\ UNCHANGED <<l_lnlikes, l_custom>>
    /\ UNCHANGED <<ofti_vars, fill_vars, mcmc_vars, prep_vars, kep_vars>>

\* ---------------------------------------------------- OFTI.prepare_samples
\* The orbital elements in the order of the rows of samples, which is the
\* order of the names unpacked at line 158.
ElemNames == <<"sma", "ecc", "inc", "argp", "lan", "tau", "plx", "mtot">>

\* The elements passed to calc_orbit after epochs, in the order of the call
\* at lines 167-169.
call_args == <<"sma", "ecc", "inc", "argp", "lan", "tau", "plx", "mtot">>

\* The parameters of calc_orbit after epochs, in the order of its
\* signature (kepler.py line 10).
calc_orbit_params == <<"sma", "ecc", "tau", "argp", "lan", "inc", "plx", "mtot">>

\* The position of name x in the sequence s.
PosIn(s, x) == CHOOSE k \in 1..Len(s) : s[k] = x

\* Row p of samples after the loop of lines 151-156: num_samples draws of
\* the prior, or the fixed value times np.ones(num_samples).  A draw is the
\* token of candidate i of one batch.
draw_row(priors, p, n) ==
    IF priors[p].has_draw
    THEN [i \in 1..n |-> Tok(1, i, 0, p)]
    ELSE [i \in 1..n |-> priors[p].value]

draw_all(priors, n) == [p \in 1..NumParams |-> draw_row(priors, p, n)]

\* A positional call: parameter k of calc_orbit is bound to argument k of
\* the call, which is the local array of that name (a row of samples).
calc_orbit_binding(drawn) ==
    [x \in {calc_orbit_params[k] : k \in 1..NumParams} |->
        drawn[PosIn(ElemNames, call_args[PosIn(calc_orbit_params, x)])]]

\* Angles and tau are integers here: TwoPi units make a full turn and
\* TauOne units make one orbital period; both exceed every token.
TwoPi  == 10000
TauOne == 10000

\* epochs[epoch_idx] / period, in units of tau: by the third law (lines
\* 160-163, 189-192) the period is a function of sma and mtot alone; here
\* one that differs whenever sma differs.
phase_at_epoch(sma, mtot) == sma + mtot

\* The correction factors of lines 181-182 that are tried for a candidate:
\* sma_corr = 1 and lan_corr = 0 when the drawn orbit happens to predict the
\* perturbed observation exactly, other values otherwise.
SmaCorrVals == {1, 2}
LanCorrVals == {0, 1}

\* Lines 160-199: scale-and-rotate of the drawn samples; corr[i] is
\* <<sma_corr, lan_corr>> of candidate i (lan_corr in angle units).
scale_and_rotate(drawn, corr) ==
    LET n        == Len(drawn[1])
        mtot     == drawn[8]
        meananno == [i \in 1..n |->
                        phase_at_epoch(drawn[1][i], mtot[i]) - drawn[6][i]]
        sma      == [i \in 1..n |-> drawn[1][i] * corr[i][1]]
        lan      == [i \in 1..n |-> (drawn[5][i] + corr[i][2]) % TwoPi]
        tau      == [i \in 1..n |->
                        (phase_at_epoch(sma[i], mtot[i]) - meananno[i]) % TauOne]
    IN  [p \in 1..NumParams |->
            IF p = 1 THEN sma
            ELSE IF p = 5 THEN lan
            ELSE IF p = 6 THEN tau
            ELSE drawn[p]]

\* The value of a fixed orbital element tried: a small angle, fraction of a
\* period or length, below every token.
PrepFixedVal == 7

\* self.priors of an OFTI sampler: the 8 elements, any of sma, ecc, lan and
\* tau fixed.
PrepPriors ==
    { [p \in 1..NumParams |-> IF p \in F THEN Fixed(PrepFixedVal) ELSE Prior] :
      F \in SUBSET {1, 2, 5, 6} }

Prep_Idle ==
    /\ p_pc = "idle"
    /\ p_priors = <<>>
    /\ p_num = 0
    /\ p_drawn = <<>>
    /\ p_calc = <<>>
    /\ p_corr = <<>>
    /\ p_samples = <<>>

\* An OFTI sampler, constructed (lines 100-108).
Prep_Start ==
    /\ p_pc = "start"
    /\ p_priors \in PrepPriors
    /\ p_num = 0
    /\ p_drawn = <<>>
    /\ p_calc = <<>>
    /\ p_corr = <<>>
    /\ p_samples = <<>>

\* prepare_samples(num_samples): lines 150-201.
Prep_Call ==
    /\ p_pc = "start"
    /\ \E n \in 1..MaxSamples :
       \E corr \in [1..n -> SmaCorrVals \X LanCorrVals] :
         LET drawn == draw_all(p_priors, n)
         IN  /\ p_num' = n
             /\ p_corr' = corr
             /\ p_drawn' = drawn
             /\ p_calc' = calc_orbit_binding(drawn)
             /\ p_samples' = scale_and_rotate(drawn, corr)
    /\ p_pc' = "done"
    /\ UNCHANGED p_priors
    /\ UNCHANGED <<ofti_vars, fill_vars, mcmc_vars, logl_vars, kep_vars>>

\* ------------------------------------------------- kepler._calc_ecc_anom
\* Mean anomalies are angles in the units of TwoPi; eccentricities are in
\* hundredths.  Floating-point values that the solvers compute are kept as
\* terms that say how they were computed:
\*   kind "nan"     np.nan;
\*   kind "M"       the float m itself;
\*   kind "newton"  the Newton iterate for (m, e) after n correction steps
\*                  from the seed E = m;
\*   kind "mikkola" _mikkola_solver(m, e) when n = 0, and 2*pi minus it
\*                  when n = 1.
Pi      == 5000
EccHigh == 95

ManomVals == {1000, 9000}
EccVals   == {0, 50, EccHigh}

NaNv         == [kind |-> "nan", m |-> 0, e |-> 0, n |-> 0]
FloatM(M)    == [kind |-> "M", m |-> M, e |-> 0, n |-> 0]

\* The (M, e) for which the number of Newton steps to convergence is an
\* input: those with 0 < e < 0.95.
NeedDomain == {me \in ManomVals \X EccVals : me[2] # 0 /\ me[2] < EccHigh}

\* np.where(...)[0] of a 1-D condition: the indices in S, increasing.
RECURSIVE IndexSeq(_)
IndexSeq(S) ==
    IF S = {} THEN <<>>
    ELSE LET top == CHOOSE i \in S : \A j \in S : j <= i
         IN  Append(IndexSeq(S \ {top}), top)

\* a[ind] with an index array: a new array (a copy), element j = a[ind[j]].
Gather(a, ind) == [j \in 1..Len(ind) |-> a[ind[j]]]

\* a[ind] = vals with an index array ind and len(vals) = len(ind).
Scatter(a, ind, vals) ==
    [i \in 1..Len(a) |->
        IF \E j \in 1..Len(ind) : ind[j] = i
        THEN vals[CHOOSE j \in 1..Len(ind) : ind[j] = i]
        ELSE a[i]]

\* The array a of a caller after a callee was given a[ind] and left it as
\* arg_after, had a[ind] been a view of a: the callee's writes land in a.
arg_is_view(a, ind, arg_after) == Scatter(a, ind, arg_after)

\* The same with an index array ind (lines 133, 137, 173): a[ind] is a copy,
\* and what the callee writes into it is lost with it.
arg_is_copy(a, ind, arg_after) == a

\* _mikkola_solver(manom, ecc), lines 211-235: closed form, elementwise.
mikkola_solver(manom, ecc) ==
    [j \in 1..Len(manom) |->
        [kind |-> "mikkola", m |-> manom[j], e |-> ecc[j], n |-> 0]]

\* 2*pi - x for a Mikkola result x.
TwoPiMinus(x) == [x EXCEPT !.n = 1 - x.n]

\* _mikkola_solver_wrapper(manom, ecc), lines 190-195: the result, and its
\* argument manom as the in-place write of line 191 leaves it.
mikkola_solver_wrapper(manom, ecc) ==
    LET ind_change == IndexSeq({j \in 1..Len(manom) : manom[j] > Pi})
        manom1 == Scatter(manom, ind_change,
                      [j \in 1..Len(ind_change) |-> TwoPi - manom[ind_change[j]]])
        eanom  == mikkola_solver(manom1, ecc)
        eanom1 == Scatter(eanom, ind_change,
                      [j \in 1..Len(ind_change) |-> TwoPiMinus(eanom[ind_change[j]])])
    IN  [eanom |-> eanom1, manom |-> manom1]

\* One correction E -= (E - e sin E - M) / (1 - e cos E), lines 158, 159,
\* 166.  With e = 0 and E = M the correction is (M - 0 - M) / 1 = 0.0 and E
\* stays the float M.
newton_step(E, M, e) ==
    IF e = 0 /\ E = FloatM(M) THEN E
    ELSE [kind |-> "newton", m |-> M, e |-> e,
          n |-> IF E.kind = "newton" THEN E.n + 1 ELSE 1]

\* abs_diff > tolerance (lines 161-163, 167-169) for an element after c
\* corrections in the loop: with e = 0 the residual is exactly 0.0;
\* otherwise need says after how many loop corrections it is within
\* tolerance.
above_tolerance(M, e, c, need) == e # 0 /\ c < need[<<M, e>>]

\* The test after the loop where it never sends anything to the fallback.
fallback_never(n, max_iter) == n > max_iter + 1
\* if niter >= max_iter, line 171.
fallback_taken(n, max_iter) == n >= max_iter

ind_zero(ecc) == IndexSeq({i \in 1..Len(ecc) : ecc[i] = 0})
ind_low(ecc)  == IndexSeq({i \in 1..Len(ecc) : ecc[i] < EccHigh})
ind_high(ecc) == IndexSeq({i \in 1..Len(ecc) : ecc[i] >= EccHigh})

\* Is caller index i one of the elements the loop is working on?
InLoopSet(i) == \E j \in 1..Len(nw_ind) : ind_low(k_ecc)[nw_ind[j]] = i

Kep_Idle ==
    /\ k_pc = "idle"
    /\ k_manom = <<>>
    /\ k_ecc = <<>>
    /\ k_max_iter = 0
    /\ k_need = <<>>
    /\ k_eanom = <<>>
    /\ nw_manom = <<>>
    /\ nw_ecc = <<>>
    /\ nw_eanom = <<>>
    /\ nw_ind = <<>>
    /\ niter = 0
    /\ k_uncond = <<>>
    /\ k_cond = <<>>
    /\ k_calls = 0
    /\ k_first_eanom = <<>>
    /\ k_in_manom = <<>>
    /\ k_in_ecc = <<>>

\* A caller holding manom and ecc arrays of one length, about to call
\* _calc_ecc_anom(manom, ecc, max_iter=k_max_iter).
Kep_Start ==
    /\ k_pc = "start"
    /\ \E len \in 1..MaxLen :
         /\ k_manom \in [1..len -> ManomVals]
         /\ k_ecc \in [1..len -> EccVals]
    /\ k_max_iter \in 0..MaxIter
    /\ k_need \in [NeedDomain -> 0..(MaxIter + 2)]
    /\ k_eanom = <<>>
    /\ nw_manom = <<>>
    /\ nw_ecc = <<>>
    /\ nw_eanom = <<>>
    /\ nw_ind = <<>>
    /\ niter = 0
    /\ k_uncond = <<>>
    /\ k_cond = <<>>
    /\ k_calls = 1
    /\ k_first_eanom = <<>>
    /\ k_in_manom = k_manom
    /\ k_in_ecc = k_ecc

\* _calc_ecc_anom lines 124-133 and, when there are low eccentricities,
\* _newton_solver lines 155-164.
Kep_Call ==
    /\ k_pc = "start"
    /\ LET n      == Len(k_manom)
           eanom0 == [i \in 1..n |-> NaNv]
           iz     == ind_zero(k_ecc)
           eanom1 == IF Len(iz) > 0
                     THEN Scatter(eanom0, iz,
                              [j \in 1..Len(iz) |-> FloatM(Gather(k_manom, iz)[j])])
                     ELSE eanom0
           il     == ind_low(k_ecc)
           m      == Gather(k_manom, il)
           e      == Gather(k_ecc, il)
           seed   == [j \in 1..Len(il) |-> FloatM(m[j])]
           step1  == [j \in 1..Len(il) |-> newton_step(seed[j], m[j], e[j])]
           step2  == [j \in 1..Len(il) |-> newton_step(step1[j], m[j], e[j])]
       IN  /\ k_eanom' = eanom1
           /\ IF Len(il) > 0
              THEN /\ nw_manom' = m
                   /\ nw_ecc' = e
                   /\ nw_eanom' = step2
                   /\ nw_ind' = IndexSeq({j \in 1..Len(il) :
                                    above_tolerance(m[j], e[j], 0, k_need)})
                   /\ k_pc' = "newton"
              ELSE /\ nw_manom' = <<>>
                   /\ nw_ecc' = <<>>
                   /\ nw_eanom' = <<>>
                   /\ nw_ind' = <<>>
                   /\ k_pc' = "high"
           /\ k_uncond' = [i \in 1..n |->
                             IF \E j \in 1..Len(il) : il[j] = i THEN 2 ELSE 0]
           /\ k_cond' = [i \in 1..n |-> 0]
    /\ niter' = 0
    /\ UNCHANGED <<k_manom, k_ecc, k_max_iter, k_need, k_calls, k_first_eanom,
                   k_in_manom, k_in_ecc>>
    /\ UNCHANGED <<ofti_vars, fill_vars, mcmc_vars, logl_vars, prep_vars>>

\* One pass of the while loop of _newton_solver: lines 165-170.
Kep_Iter ==
    /\ k_pc = "newton"
    /\ Len(nw_ind) > 0 /\ niter <= k_max_iter
    /\ nw_eanom' = Scatter(nw_eanom, nw_ind,
                      [j \in 1..Len(nw_ind) |->
                          newton_step(nw_eanom[nw_ind[j]], nw_manom[nw_ind[j]],
                                      nw_ecc[nw_ind[j]])])
    /\ k_cond' = [i \in 1..Len(k_cond) |->
                     IF InLoopSet(i) THEN k_cond[i] + 1 ELSE k_cond[i]]
    /\ nw_ind' = IndexSeq({j \in 1..Len(nw_manom) :
                     above_tolerance(nw_manom[j], nw_ecc[j],
                                     k_cond'[ind_low(k_ecc)[j]], k_need)})
    /\ niter' = niter + 1
    /\ UNCHANGED <<k_pc, k_manom, k_ecc, k_max_iter, k_need, k_eanom, nw_manom,
                   nw_ecc, k_uncond, k_calls, k_first_eanom, k_in_manom, k_in_ecc>>
    /\ UNCHANGED <<ofti_vars, fill_vars, mcmc_vars, logl_vars, prep_vars>>

\* The loop is left: lines 171-175 of _newton_solver and the assignment
\* eanom[ind_low] = ... of line 133.
Kep_NewtonReturn ==
    /\ k_pc = "newton"
    /\ ~(Len(nw_ind) > 0 /\ niter <= k_max_iter)
    /\ LET fb  == fallback_taken(niter, k_max_iter)
           w   == mikkola_solver_wrapper(Gather(nw_manom, nw_ind),
                                         Gather(nw_ecc, nw_ind))
           ean == IF fb THEN Scatter(nw_eanom, nw_ind, w.eanom) ELSE nw_eanom
           man == IF fb THEN arg_is_copy(nw_manom, nw_ind, w.manom) ELSE nw_manom
           il  == ind_low(k_ecc)
       IN  /\ nw_eanom' = ean
           /\ nw_manom' = man
           /\ IF Len(ean) = Len(il)
              THEN /\ k_eanom' = Scatter(k_eanom, il, ean)
                   /\ k_pc' = "high"
              ELSE /\ k_eanom' = k_eanom
                   /\ k_pc' = "raised"
           /\ k_manom' = arg_is_copy(k_manom, il, man)
    /\ UNCHANGED <<k_ecc, k_max_iter, k_need, nw_ecc, nw_ind, niter, k_uncond,
                   k_cond, k_calls, k_first_eanom, k_in_manom, k_in_ecc>>
    /\ UNCHANGED <<ofti_vars, fill_vars, mcmc_vars, logl_vars, prep_vars>>

\* _calc_ecc_anom lines 135-139: the high eccentricities, and the return.
Kep_High ==
    /\ k_pc = "high"
    /\ LET ih == ind_high(k_ecc)
           w  == mikkola_solver_wrapper(Gather(k_manom, ih), Gather(k_ecc, ih))
       IN  IF Len(ih) > 0
           THEN /\ k_eanom' = Scatter(k_eanom, ih, w.eanom)
                /\ k_manom' = arg_is_copy(k_manom, ih, w.manom)
           ELSE UNCHANGED <<k_eanom, k_manom>>
    /\ k_pc' = "done"
    /\ UNCHANGED <<k_ecc, k_max_iter, k_need, nw_manom, nw_ecc, nw_eanom, nw_ind,
                   niter, k_uncond, k_cond, k_calls, k_first_eanom, k_in_manom,
                   k_in_ecc>>
    /\ UNCHANGED <<ofti_vars, fill_vars, mcmc_vars, logl_vars, prep_vars>>

\* The caller calls _calc_ecc_anom once more with the arrays it holds.
Kep_CallAgain ==
    /\ k_pc = "done"
    /\ k_calls = 1
    /\ k_first_eanom' = k_eanom
    /\ k_calls' = 2
    /\ k_pc' = "start"
    /\ UNCHANGED <<k_manom, k_ecc, k_max_iter, k_need, k_eanom, nw_manom, nw_ecc,
                   nw_eanom, nw_ind, niter, k_uncond, k_cond, k_in_manom, k_in_ecc>>
    /\ UNCHANGED <<ofti_vars, fill_vars, mcmc_vars, logl_vars, prep_vars>>

\* ------------------------------------------------------- specifications
Others_Idle == Logl_Idle /\ Prep_Idle /\ Kep_Idle

InitOFTI == OFTI_Idle /\ Fill_Idle /\ MCMC_Idle /\ Others_Idle
NextOFTI == OFTI_Call \/ OFTI_Batch \/ OFTI_Return
SpecOFTI == InitOFTI /\ [][NextOFTI]_vars

InitFill == OFTI_Idle /\ Fill_Start /\ MCMC_Idle /\ Others_Idle
NextFill == Fill_Draw1D \/ Fill_Draw2D \/ Fill_Apply
SpecFill == InitFill /\ [][NextFill]_vars

InitMCMC == OFTI_Idle /\ Fill_Idle /\ MCMC_Start /\ Others_Idle
NextMCMC == MCMC_Burn \/ MCMC_Assert \/ MCMC_Production \/ MCMC_ChopChains
SpecMCMC == InitMCMC /\ [][NextMCMC]_vars

Samplers_Idle == OFTI_Idle /\ Fill_Idle /\ MCMC_Idle

InitLogl == Samplers_Idle /\ Logl_Start /\ Prep_Idle /\ Kep_Idle
NextLogl == Logl_Call
SpecLogl == InitLogl /\ [][NextLogl]_vars

InitPrep == Samplers_Idle /\ Logl_Idle /\ Prep_Start /\ Kep_Idle
NextPrep == Prep_Call
SpecPrep == InitPrep /\ [][NextPrep]_vars

InitKepler == Samplers_Idle /\ Logl_Idle /\ Prep_Idle /\ Kep_Start
NextKepler == Kep_Call \/ Kep_Iter \/ Kep_NewtonReturn \/ Kep_High \/ Kep_CallAgain
SpecKepler == InitKepler /\ [][NextKepler]_vars

Init == InitOFTI \/ InitFill \/ InitMCMC \/ InitLogl \/ InitPrep \/ InitKepler
Next == NextOFTI \/ NextFill \/ NextMCMC \/ NextLogl \/ NextPrep \/ NextKepler
Spec == Init /\ [][Next]_vars

\* =================================================================== claims
\* The accepted index of an orbit of the last batch: the i with
\* samples[:, i] = orbit.
IdxOf(orbit) == CHOOSE i \in 1..Len(lnp) : Column(samples, i) = orbit

\* C1: OFTI.run_sampler(total_orbits = N) never counts more than N saved
\* orbits, and when it returns, the returned array has exactly N rows, each
\* an orbit reject() accepted (no row left unwritten), and those N rows with
\* their own N log-likelihoods are what results.add_samples was given.
C1_ExactlyN ==
    /\ o_pc # "idle" => n_orbits_saved <= total_orbits
    /\ o_pc = "returned" =>
         /\ Len(o_returned) = total_orbits
         /\ \A k \in 1..Len(o_returned) : o_returned[k] \in ever_accepted
         /\ Len(o_results) = 2
         /\ o_results[1] = o_returned
         /\ Len(o_results[2]) = total_orbits
         /\ \A k \in 1..total_orbits :
              /\ o_results[2][k] # UnfilledVal
              /\ o_results[2][k] = LnOfOrbit(o_returned[k])

\* A call that returned after two batches, the last of which accepted more
\* orbits than were still wanted.
C1_Witness ==
    /\ o_pc = "returned"
    /\ total_orbits >= 2
    /\ n_batches >= 2
    /\ Len(accepted_orbits) >= 2
    /\ \E k \in 1..Len(accepted_orbits) :
         \A j \in 1..Len(o_returned) : o_returned[j] # accepted_orbits[k]

\* C10: reject(samples) returns candidate i iff lnp[i] > log(u[i]); the
\* accepted candidates come in increasing order of i, each as the whole
\* column samples[:, i], and the k-th returned log-likelihood is the lnp of
\* the k-th returned candidate.
C10_RejectRule ==
    n_batches > 0 =>
      /\ Len(lnp) = num_samples
      /\ Len(acc_lnlikes) = Len(accepted_orbits)
      /\ \A i \in 1..Len(lnp) :
           (lnp[i] > random_samples[i]) <=>
              (\E k \in 1..Len(accepted_orbits) :
                  accepted_orbits[k] = Column(samples, i))
      /\ \A k \in 1..Len(accepted_orbits) :
           /\ \E i \in 1..Len(lnp) : accepted_orbits[k] = Column(samples, i)
           /\ acc_lnlikes[k] = lnp[IdxOf(accepted_orbits[k])]
      /\ \A k1, k2 \in 1..Len(accepted_orbits) :
           k1 < k2 => IdxOf(accepted_orbits[k1]) < IdxOf(accepted_orbits[k2])

\* A batch in which one candidate was accepted and another, whose
\* log-likelihood equals the log of its draw, was not.
C10_Witness ==
    /\ n_batches > 0
    /\ Len(accepted_orbits) >= 1
    /\ \E i \in 1..Len(lnp) :
         /\ lnp[i] = random_samples[i]
         /\ \A k \in 1..Len(accepted_orbits) :
              accepted_orbits[k] # Column(samples, i)

\* The number of sampled parameters among the first i entries of priors.
FreeUpTo(priors, i) == Cardinality({j \in 1..i : priors[j].has_draw})

\* row is vec with the fixed values of priors at their own indices.
FullRow(priors, vec, row) ==
    /\ Len(row) = Len(priors)
    /\ Len(vec) = FreeUpTo(priors, Len(priors))
    /\ \A i \in 1..Len(priors) :
         IF priors[i].has_draw
         THEN row[i] = vec[FreeUpTo(priors, i)]
         ELSE row[i] = priors[i].value

\* C2: _fill_in_fixed_params returns, for a 1-D input of the R sampled
\* parameters or a 2-D input of shape (M, R), an array of R + fixed_count
\* entries (per row) holding every fixed value at its index in sys_priors
\* and the sampled values at the other indices in their order; with nothing
\* fixed it returns its input.
C2_FillInFixed ==
    f_pc = "filled" =>
      /\ f_output.ok
      /\ IF f_twodim
         THEN /\ Len(f_output.val) = Len(f_input)
              /\ \A m \in 1..Len(f_input) :
                   FullRow(f_priors, f_input[m], f_output.val[m])
         ELSE FullRow(f_priors, f_input, f_output.val)
      /\ (\A i \in 1..Len(f_priors) : f_priors[i].has_draw) =>
            f_output.val = f_input

\* A 2-D input of two rows filled in around a sampled parameter that lies
\* between two fixed ones.
C2_Witness ==
    /\ f_pc = "filled"
    /\ f_twodim
    /\ Len(f_input) = 2
    /\ Len(f_priors) = 3
    /\ ~f_priors[1].has_draw /\ f_priors[2].has_draw /\ ~f_priors[3].has_draw
    /\ f_output.ok

\* C3: MCMC.run_sampler gets past its assertion only when
\* total_orbits > num_walkers.
C3_FailsUnlessGreater ==
    m_pc \in {"checked", "done"} => mc_total_orbits > num_walkers

\* The age of a walker position: the sampler iterations behind it.
AgeOf(pos) == IF use_pt THEN pos[1][1][1] \div 1000 ELSE pos[1][1] \div 1000

\* The position made of the last step of every walker of a chain.
LastOfChain(ch) ==
    IF use_pt
    THEN [t \in DOMAIN ch |-> [w \in DOMAIN ch[t] |-> ch[t][w][Len(ch[t][w])]]]
    ELSE [w \in DOMAIN ch |-> ch[w][Len(ch[w])]]

\* C4: when a run_sampler call completes, curr_pos is the position of its
\* last production iteration; the first sampler iteration of a call (burn-in
\* or production) starts from the curr_pos the sampler had when the call was
\* entered, which has every earlier iteration behind it and is not the
\* initial draw once an iteration has been made; and a burn-in of 0 steps
\* leaves curr_pos as it was.
C4_Resumes ==
    /\ m_pc = "done" =>
         /\ curr_pos = LastOfChain(chain)
         /\ AgeOf(curr_pos) = iters
    /\ (m_pc \in {"burned", "checked", "done", "failed"} /\ first_p0 # <<>>) =>
         /\ first_p0 = entry_pos
         /\ AgeOf(first_p0) = entry_iters
         /\ entry_iters > 0 =>
              first_p0 # init_positions(sys_priors, num_temps, num_walkers)
    /\ (m_pc \in {"burned", "checked", "failed"} /\ burn_steps = 0) =>
         curr_pos = entry_pos

\* A second call, without burn-in, completed from where the first one ended.
C4_Witness ==
    /\ m_pc = "done"
    /\ n_calls = 2
    /\ burn_steps = 0
    /\ entry_iters > 0
    /\ first_p0 = entry_pos

\* C5 as stated: after the completed calls the chain and the posterior hold
\* the production steps of all of them.
C5_Accumulates ==
    m_pc = "done" =>
      /\ ChainSteps(chain, use_pt) = steps_total
      /\ Len(post) = num_walkers * steps_total

\* The first step of the chain of walker 1 (at the lowest temperature).
FirstOfChain == IF use_pt THEN chain[1][1][1] ELSE chain[1][1]

\* C5, amended: after each completed run_sampler call chain, lnlikes and
\* post hold the nsteps production steps per walker of that call alone.
C5_HoldsLastCallOnly ==
    m_pc = "done" =>
      /\ ChainSteps(chain, use_pt) = nsteps
      /\ Len(post) = num_walkers * nsteps
      /\ LnlikesSize = num_walkers * nsteps
      /\ FirstOfChain[1] \div 1000 = entry_iters + burn_steps + 1

\* A second completed call after a first one that produced steps.
C5_Witness ==
    /\ m_pc = "done"
    /\ n_calls = 2
    /\ steps_total > nsteps
    /\ ChainSteps(chain, use_pt) = nsteps

\* The chain of the lowest temperature.
Chain0(ch) == IF use_pt THEN ch[1] ELSE ch

\* Row w*nsteps + s of p is the entry of walker w at step s of ch with the
\* fixed parameters in place.
PostMatchesChain(p, ch) ==
    LET S == ChainSteps(ch, use_pt)
    IN  /\ Len(p) = num_walkers * S
        /\ \A w \in 1..num_walkers, s \in 1..S :
             FullRow(sys_priors, Chain0(ch)[w][s], p[(w - 1) * S + s])

\* The entry of l for walker w and step s, l taken in C order, is the
\* log-probability of that entry of ch.
LnlikesMatchChain(l, ch) ==
    LET S == ChainSteps(ch, use_pt)
    IN  IF use_pt
        THEN /\ Len(l) = num_walkers * S
             /\ \A w \in 1..num_walkers, s \in 1..S :
                  l[(w - 1) * S + s] = LnProbOf(Chain0(ch)[w][s])
        ELSE /\ Len(l) = num_walkers
             /\ \A w \in 1..num_walkers :
                  /\ Len(l[w]) = S
                  /\ \A s \in 1..S : l[w][s] = LnProbOf(Chain0(ch)[w][s])

C6_ChopLeavesRest ==
    (chop_args # <<>> /\ chop_args[1] + chop_args[2] <= chop_args[3]) =>
      LET S == chop_args[3] - chop_args[1] - chop_args[2]
      IN  /\ chop_err = ""
          /\ ChainSteps(chain, use_pt) = S
          /\ LnlikesSize = num_walkers * S
          /\ Len(post) = num_walkers * S

\* C8: after a chop_chains call chain, lnlikes, lnlikes_alltemps and post
\* are cut to the same steps: the call completes, and the entry of every
\* array for (walker, step) is still the same sample.
C8_ChopKeepsConsistent ==
    chop_args # <<>> =>
      /\ chop_err = ""
      /\ PostMatchesChain(post, chain)
      /\ LnlikesMatchChain(lnlikes, chain)
      /\ use_pt => lnlikes_alltemps = sampler_logprobability(chain)

\* ---------------------------------------------------------------- C11
RECURSIVE SumOfSet(_)
SumOfSet(S) ==
    IF S = {} THEN 0
    ELSE LET x == CHOOSE y \in S : TRUE IN x + SumOfSet(S \ {x})

\* The (observation, quantity) pairs whose term for orbit n is a number.
NumberTerms(n) ==
    { oq \in (1..Len(l_lnlikes)) \X (1..2) : l_lnlikes[oq[1]][oq[2]][n] # NaN }

CustomTerm(n) == IF l_custom = <<>> THEN 0 ELSE l_custom[n]

\* C11: what _logl returns for an orbit is the sum of that orbit's terms
\* that are numbers, over all observations and both quantities, plus the
\* custom term when one is supplied; it is never NaN, and when every term
\* of the orbit is NaN it is the custom term alone (0 without one).
C11_NanSkippingSum ==
    l_pc = "done" =>
        /\ Len(l_sum) = Len(l_lnlikes[1][1])
        /\ \A n \in 1..Len(l_sum) :
             /\ l_sum[n] # NaN
             /\ l_sum[n] = SumOfSet({l_lnlikes[oq[1]][oq[2]][n] : oq \in NumberTerms(n)})
                              + CustomTerm(n)
             /\ NumberTerms(n) = {} => l_sum[n] = CustomTerm(n)

\* A call with a custom term in which one orbit has both NaN terms and
\* numbers and another orbit has NaN terms only.
C11_Witness ==
    /\ l_pc = "done"
    /\ l_custom # <<>>
    /\ \E n \in 1..Len(l_sum) :
         /\ NumberTerms(n) # {}
         /\ NumberTerms(n) # (1..Len(l_lnlikes)) \X (1..2)
         /\ l_custom[n] # 0
    /\ \E n \in 1..Len(l_sum) : NumberTerms(n) = {}

\* ---------------------------------------------------------------- C12
\* C12: a run_sampler call that fails the nsteps > 0 assertion has executed
\* no sampler iteration, burn-in included, and has left curr_pos as it was
\* when the call was entered, for every burn_steps >= 0.
C12_CheckBeforeSampling ==
    m_pc = "failed" => iters = entry_iters /\ curr_pos = entry_pos

\* ---------------------------------------------------------------- C13
\* C13: in prepare_samples, every parameter of calc_orbit (sma, ecc, tau,
\* argp, lan, inc, plx, mtot) is bound to the drawn row of samples of the
\* element of the same name.
C13_ElementsInTheirSlots ==
    p_pc = "done" =>
        \A k \in 1..NumParams :
            p_calc[ElemNames[k]] = p_drawn[k]

\* ---------------------------------------------------------------- C14
\* C14: every row of the samples prepare_samples returns whose prior is a
\* plain scalar holds that scalar in every column, rows 0 (sma), 4 (lan)
\* and 5 (tau) included.
C14_FixedStayFixed ==
    p_pc = "done" =>
        \A p \in 1..NumParams :
            ~p_priors[p].has_draw =>
                \A i \in 1..p_num : p_samples[p][i] = p_priors[p].value

\* ---------------------------------------------------------------- C15
\* What _mikkola_solver_wrapper returns for the single pair (M, e).
WrapperValue(M, e) == mikkola_solver_wrapper(<<M>>, <<e>>).eanom[1]

\* What Newton's method holds for (M, e) after c loop corrections.
NewtonValue(M, e, c) ==
    IF e = 0 THEN FloatM(M)
    ELSE [kind |-> "newton", m |-> M, e |-> e, n |-> 2 + c]

\* C15: when _calc_ecc_anom returns, every element with e < 0.95 whose
\* correction was still above the tolerance when the loop was left holds
\* the Mikkola-wrapper result for its own (M, e), every other element with
\* e < 0.95 holds its Newton value, no element is NaN, and no error was
\* raised on the way.
C15_FallbackPerElement ==
    /\ k_pc # "raised"
    /\ k_pc = "done" =>
         \A i \in 1..Len(k_eanom) :
            LET M == k_in_manom[i]
                e == k_in_ecc[i]
            IN  /\ k_eanom[i] # NaNv
                /\ e < EccHigh =>
                     IF above_tolerance(M, e, k_cond[i], k_need)
                     THEN k_eanom[i] = WrapperValue(M, e)
                     ELSE k_eanom[i] = NewtonValue(M, e, k_cond[i])

\* A returned batch in which one element was handed to the fallback and
\* another converged inside the loop.
C15_Witness ==
    /\ k_pc = "done"
    /\ \E i, j \in 1..Len(k_eanom) :
         /\ k_in_ecc[i] < EccHigh /\ k_eanom[i].kind = "mikkola"
         /\ k_eanom[j].kind = "newton" /\ k_cond[j] > 0

\* ---------------------------------------------------------------- C16
\* C16: the loop of _newton_solver corrects no element more than max_iter
\* times.
C16_AtMostMaxIter ==
    k_pc \in {"newton", "high", "done"} =>
        \A i \in 1..Len(k_cond) : k_cond[i] <= k_max_iter

\* ---------------------------------------------------------------- C17
\* C17: when _calc_ecc_anom returns, the caller's manom and ecc arrays are
\* what they were when it was called, and a second call with them returns
\* what the first call returned.
C17_Pure ==
    k_pc = "done" =>
        /\ k_manom = k_in_manom
        /\ k_ecc = k_in_ecc
        /\ k_calls = 2 => k_eanom = k_first_eanom

\* Two calls have returned for a batch with an element of e >= 0.95 and
\* M > pi and an element of e < 0.95 and M > pi that the fallback took.
C17_Witness ==
    /\ k_pc = "done"
    /\ k_calls = 2
    /\ \E i, j \in 1..Len(k_eanom) :
         /\ k_in_ecc[i] >= EccHigh /\ k_in_manom[i] > Pi
         /\ k_eanom[i] = [kind |-> "mikkola", m |-> TwoPi - k_in_manom[i],
                          e |-> k_in_ecc[i], n |-> 1]
         /\ k_in_ecc[j] < EccHigh /\ k_in_manom[j] > Pi
         /\ k_eanom[j].kind = "mikkola"

\* ---------------------------------------------------------------- C18
\* C18: every element with e == 0 is returned as its mean anomaly exactly,
\* and no Newton correction step was applied to it.
C18_ZeroEccUntouched ==
    k_pc = "done" =>
        \A i \in 1..Len(k_eanom) :
            k_in_ecc[i] = 0 =>
                /\ k_eanom[i] = FloatM(k_in_manom[i])
                /\ k_uncond[i] + k_cond[i] = 0

====
